---- MODULE Spec2Model ----
\* Model of organizar_xml (src/src/main.rs): classification of fiscal XML files
\* by the 44-digit access key in their name, extraction of zip archives into a
\* temporary directory, and the parallel copy phase.
\*
\* Four specifications share the definitions:
\*   SpecKey       one call of find_chave_in_name on a generated file name
\*   SpecClassify  one file name through find_chave_in_name,
\*                 determine_destination_for_xml and the push of its task
\*   SpecZip       one call of safe_extract_zip on a generated archive
\*   Spec          main and process_root, run after run on one root and one
\*                 destination, with the copy workers interleaved
\*
\* Paths follow the Unix rules. The destination base lies outside root, so
\* the walk does not meet the files the program has copied. Failures of the
\* operating system (tempdir, create_dir_all, extraction) are drawn per call;
\* whether a source file can be read is a property of the file.
EXTENDS Integers, Sequences, FiniteSets, TLC

\* ---------------------------------------------------------------- bounds
\* Digit runs of a generated file name have a length within RunSlack of KeyLen.
RunSlack == 2

\* ------------------------------------------------------------- characters
\* A name is a sequence of characters, each a one-character token.
AsciiDigits == {"0", "1", "2", "3", "4", "5", "6", "7", "8", "9"}

\* U+0663 ARABIC-INDIC DIGIT THREE: a decimal digit for the regex class \d
\* (Unicode-aware by default), two bytes in UTF-8.
ArabicDigit == "u0663"

DigitChar == <<"0", "1", "2", "3", "4", "5", "6", "7", "8", "9">>

DigitVal(c) == CHOOSE v \in 0..9 : DigitChar[v + 1] = c

\* The regex class \d.
IsDigit(c) == c \in AsciiDigits \cup {ArabicDigit}

\* Length in bytes of the UTF-8 encoding of a character.
ByteLen(c) == IF c = ArabicDigit THEN 2 ELSE 1

RECURSIVE StrLen(_)
\* str::len(): the length in bytes.
StrLen(s) == IF s = <<>> THEN 0 ELSE ByteLen(Head(s)) + StrLen(Tail(s))

\* Option<T>.
None == [some |-> FALSE]

Some(v) == [some |-> TRUE, val |-> v]

\* ------------------------------------------------------------ KeyExtractor
KeyLen == 44

\* The start positions at which the regex (\d{44}) matches.
MatchStarts(name) ==
    {i \in 1..(Len(name) - KeyLen + 1) :
        \A k \in i..(i + KeyLen - 1) : IsDigit(name[k])}

\* A plausible slip: the match is required to be a whole digit run.
find_chave_maximal_only(name) ==
    LET whole == {i \in MatchStarts(name) :
                    /\ (i = 1 \/ ~IsDigit(name[i - 1]))
                    /\ (i + KeyLen > Len(name) \/ ~IsDigit(name[i + KeyLen]))}
    IN  IF whole = {} THEN None
        ELSE LET i == CHOOSE j \in whole : \A k \in whole : j <= k
             IN  Some(SubSeq(name, i, i + KeyLen - 1))

\* re.captures(name): the leftmost match, group 1.
find_chave_in_name(name) ==
    IF MatchStarts(name) = {} THEN None
    ELSE LET i == CHOOSE j \in MatchStarts(name) : \A k \in MatchStarts(name) : j <= k
         IN  Some(SubSeq(name, i, i + KeyLen - 1))

\* ----------------------------------------------------------- KeyClassifier
\* chrono::NaiveDate, compared as chrono compares it.
Date(y, m, d) == [year |-> y, month |-> m, day |-> d]

DateLT(a, b) ==
    \/ a.year < b.year
    \/ a.year = b.year /\ a.month < b.month
    \/ a.year = b.year /\ a.month = b.month /\ a.day < b.day

\* NaiveDate::from_ymd_opt for a first day of month: None for a month that
\* does not exist.
from_ymd_opt(y, m, d) == IF m >= 1 /\ m <= 12 /\ d = 1 THEN Some(Date(y, m, d)) ELSE None

RECURSIVE WrapMonth(_, _)
\* while month <= 0 { month += 12; year -= 1; }
WrapMonth(year, month) ==
    IF month <= 0 THEN WrapMonth(year - 1, month + 12) ELSE Date(year, month, 1)

\* A plausible slip: the month wraps but the year is not decremented.
six_months_ago_no_rollover(today) ==
    Date(today.year, IF today.month - 6 <= 0 THEN today.month + 6 ELSE today.month - 6, 1)

six_months_ago_reference(today) == WrapMonth(today.year, today.month - 6)

\* The destination tree, as paths relative to the base directory.
Mais == "Mais de 6 meses"

Menos == "Menos de 6 meses"

structure ==
    << <<"CTe">>, <<"CTe", Mais>>, <<"CTe", Menos>>,
       <<"NFe">>, <<"NFe", Mais>>, <<"NFe", Menos>>,
       <<"MDFe">>, <<"NFCe">> >>

DestDirs == {structure[i] : i \in 1..Len(structure)}

\* What is at a path of the destination tree: nothing, a directory, or a
\* regular file of that name.
PathKinds == {"none", "dir", "file"}

Prefixes(p) == {SubSeq(p, 1, n) : n \in 1..Len(p)}

\* Path::exists(): the path resolves, to a directory or to a file.
exists(d, p) == d[p] # "none" /\ \A q \in Prefixes(p) \ {p} : d[q] = "dir"

\* fs::create_dir_all(p): ok is FALSE when the operating system refuses.
create_dir_all(d, p, ok) ==
    IF ~ok \/ \E q \in Prefixes(p) : d[q] = "file"
    THEN [ok |-> FALSE, dirs |-> d]
    ELSE [ok |-> TRUE, dirs |-> [q \in DOMAIN d |-> IF q \in Prefixes(p) THEN "dir" ELSE d[q]]]

\* str::parse::<i32>() / parse::<u32>() of a string of the key: -1 stands for Err.
ParseInt(s) ==
    IF \E k \in 1..Len(s) : s[k] \notin AsciiDigits THEN -1
    ELSE IF Len(s) = 2 THEN 10 * DigitVal(s[1]) + DigitVal(s[2])
    ELSE -1

\* A plausible slip: the table ends in a default arm instead of returning None.
ModelNameDefaultArm(model) ==
    IF model = <<"5", "5">> THEN "NFe"
    ELSE IF model = <<"5", "7">> THEN "CTe"
    ELSE IF model = <<"5", "8">> THEN "MDFe"
    ELSE "NFCe"

\* The model table of lines 118-129; "" stands for the arm that returns None.
ModelName(model) ==
    IF model = <<"5", "5">> THEN "NFe"
    ELSE IF model = <<"5", "7">> THEN "CTe"
    ELSE IF model = <<"5", "8">> THEN "MDFe"
    ELSE IF model = <<"6", "5">> THEN "NFCe"
    ELSE ""

Century == 2000

\* if !dest.exists() { create_dir_all(&dest) } ; Some(dest) or None.
EnsureDest(d, dest, mkdirOk) ==
    IF exists(d, dest) THEN [dest |-> Some(dest), dirs |-> d]
    ELSE LET r == create_dir_all(d, dest, mkdirOk)
         IN  IF r.ok THEN [dest |-> Some(dest), dirs |-> r.dirs]
             ELSE [dest |-> None, dirs |-> d]

\* A plausible slip: the month is checked for every model.
BucketlessMonthChecked(d, chave, model_name, mkdirOk) ==
    LET mmv == ParseInt(SubSeq(chave, 5, 6))
    IN  IF mmv < 1 \/ mmv > 12 THEN [dest |-> None, dirs |-> d]
        ELSE EnsureDest(d, <<model_name>>, mkdirOk)

\* Lines 171-181: MDFe or NFCe go to the root directory of the model.
Bucketless(d, chave, model_name, mkdirOk) == EnsureDest(d, <<model_name>>, mkdirOk)

\* Lines 152-156.
Bucket(file_date, six_months_ago) ==
    IF DateLT(file_date, six_months_ago) THEN Mais ELSE Menos

\* A plausible slip: the model is read from the last two digits of the key.
ModelFieldAtEnd(chave) == SubSeq(chave, 43, 44)

\* &chave[20..22]
ModelField(chave) == SubSeq(chave, 21, 22)

\* determine_destination_for_xml(base, chave, today, verbose): the destination
\* directory (relative to base) or None, and the directories after the call.
determine_destination_for_xml(d, chave, today, mkdirOk) ==
    IF StrLen(chave) # KeyLen THEN [dest |-> None, dirs |-> d]
    ELSE
    LET model == ModelField(chave)
        model_name == ModelName(model)
    IN  IF model_name = "" THEN [dest |-> None, dirs |-> d]
        ELSE IF model = <<"5", "5">> \/ model = <<"5", "7">>
        THEN LET yyv == ParseInt(SubSeq(chave, 3, 4))
                 mmv == ParseInt(SubSeq(chave, 5, 6))
             IN  IF yyv < 0 \/ mmv < 0 THEN [dest |-> None, dirs |-> d]
                 ELSE IF mmv < 1 \/ mmv > 12 THEN [dest |-> None, dirs |-> d]
                 ELSE LET file_date == from_ymd_opt(Century + yyv, mmv, 1)
                          six_months_ago == six_months_ago_reference(today)
                      IN  IF ~file_date.some THEN [dest |-> None, dirs |-> d]
                          ELSE EnsureDest(d, <<model_name, Bucket(file_date.val, six_months_ago)>>,
                                          mkdirOk)
        ELSE Bucketless(d, chave, model_name, mkdirOk)

\* ---------------------------------------------------------------- paths
RECURSIVE SplitFrom(_, _, _)
\* The components of s from position i on; the current one began at start.
SplitFrom(s, i, start) ==
    IF i > Len(s) THEN <<SubSeq(s, start, Len(s))>>
    ELSE IF s[i] = "/" THEN <<SubSeq(s, start, i - 1)>> \o SplitFrom(s, i + 1, i + 1)
    ELSE SplitFrom(s, i + 1, start)

\* The components of a path string: the pieces between separators.
Split(s) == SplitFrom(s, 1, 1)

DotDot == <<".", ".">>

\* str::contains(".."): two adjacent dots anywhere in the name.
ContainsDotDot(name) == \E k \in 1..(Len(name) - 1) : name[k] = "." /\ name[k + 1] = "."

\* Path::is_absolute() on Unix.
is_absolute(name) == name # <<>> /\ name[1] = "/"

RECURSIVE Walk(_, _, _)
\* Where the operating system resolves a relative path to: up counts the
\* levels climbed above the starting directory, segs is the path below that.
Walk(comps, up, segs) ==
    IF comps = <<>> THEN [up |-> up, segs |-> segs]
    ELSE LET c == Head(comps)
         IN  IF c = <<>> \/ c = <<".">> THEN Walk(Tail(comps), up, segs)
             ELSE IF c = DotDot
                  THEN IF segs = <<>> THEN Walk(Tail(comps), up + 1, segs)
                       ELSE Walk(Tail(comps), up, SubSeq(segs, 1, Len(segs) - 1))
             ELSE Walk(Tail(comps), up, Append(segs, c))

\* extract_to.join(name): an absolute name replaces the base.
Join(name) ==
    LET w == Walk(Split(name), 0, <<>>)
    IN  [abs |-> is_absolute(name), up |-> w.up, segs |-> w.segs]

\* A location lies inside the extraction directory.
Inside(loc) == ~loc.abs /\ loc.up = 0

\* Path::file_name(): the last component, as a string; <<>> when there is none.
file_name(path) ==
    LET comps == Split(path)
        normal == {k \in 1..Len(comps) : comps[k] # <<>> /\ comps[k] # <<".">>}
    IN  IF normal = {} THEN <<>>
        ELSE LET last == CHOOSE k \in normal : \A j \in normal : j <= k
             IN  IF comps[last] = DotDot THEN <<>> ELSE comps[last]

\* Path::extension(): after the last dot of the file name; none for a name
\* without a dot or whose only dot is its first character.
extension(path) ==
    LET f == file_name(path)
        dots == {k \in 2..Len(f) : f[k] = "."}
    IN  IF dots = {} THEN <<>>
        ELSE LET last == CHOOSE k \in dots : \A j \in dots : j <= k
             IN  SubSeq(f, last + 1, Len(f))

\* char::to_ascii_lowercase, for the letters of the two suffixes.
Lower(c) ==
    CASE c = "X" -> "x" [] c = "M" -> "m" [] c = "L" -> "l"
      [] c = "Z" -> "z" [] c = "I" -> "i" [] c = "P" -> "p"
      [] OTHER -> c

to_lowercase(s) == [k \in 1..Len(s) |-> Lower(s[k])]

IsXml(path) == to_lowercase(extension(path)) = <<"x", "m", "l">>

IsZip(path) == to_lowercase(extension(path)) = <<"z", "i", "p">>

\* --------------------------------------------------------- ArchiveUnpacker
\* ZipFile::is_dir(): the stored name ends with a separator.
is_dir(name) == name # <<>> /\ name[Len(name)] = "/"

\* A plausible slip: the absolute-path test is missing.
UnsafeNoAbsolute(name) == ContainsDotDot(name)

\* Line 199.
Unsafe(name) == ContainsDotDot(name) \/ is_absolute(name)

\* The objects of the file system an extraction has made: a location and a kind.
Obj(loc, kind) == [abs |-> loc.abs, up |-> loc.up, segs |-> loc.segs, kind |-> kind]

DirChain(loc) == {Obj([loc EXCEPT !.segs = SubSeq(loc.segs, 1, n)], "dir") : n \in 1..Len(loc.segs)}

\* A prefix of the location (or the location itself) is a regular file.
BlockedByFile(created, loc, strict) ==
    \E n \in 1..(Len(loc.segs) - (IF strict THEN 1 ELSE 0)) :
        Obj([loc EXCEPT !.segs = SubSeq(loc.segs, 1, n)], "file") \in created

ParentLoc(loc) ==
    IF loc.segs = <<>> THEN loc ELSE [loc EXCEPT !.segs = SubSeq(loc.segs, 1, Len(loc.segs) - 1)]

RECURSIVE ExtractFrom(_, _, _, _, _)
\* The loop of lines 196-216 from entry i on. failAt is the entry at which the
\* archive or the file system reports an I/O error (0: none).
ExtractFrom(entries, i, created, extracted, failAt) ==
    IF i > Len(entries) THEN [ok |-> TRUE, extracted |-> extracted, created |-> created]
    ELSE
    LET name == entries[i]
        err == [ok |-> FALSE, extracted |-> <<>>, created |-> created]
    IN  IF failAt = i THEN err
        ELSE IF Unsafe(name) THEN ExtractFrom(entries, i + 1, created, extracted, failAt)
        ELSE
        LET loc == Join(name)
            parent == ParentLoc(loc)
        IN  IF BlockedByFile(created, parent, FALSE) THEN err
            ELSE
            LET withParent == created \cup DirChain(parent)
            IN  IF is_dir(name)
                THEN IF BlockedByFile(withParent, loc, FALSE)
                     THEN [err EXCEPT !.created = withParent]
                     ELSE ExtractFrom(entries, i + 1, withParent \cup DirChain(loc),
                                      extracted, failAt)
                ELSE IF loc.segs = <<>> \/ Obj(loc, "dir") \in withParent
                     THEN [err EXCEPT !.created = withParent]
                     ELSE ExtractFrom(entries, i + 1, withParent \cup {Obj(loc, "file")},
                                      Append(extracted, name), failAt)

\* safe_extract_zip(zip_path, extract_to, verbose); openOk is FALSE when
\* File::open or ZipArchive::new fails.
safe_extract_zip(entries, openOk, failAt) ==
    IF ~openOk THEN [ok |-> FALSE, extracted |-> <<>>, created |-> {}]
    ELSE ExtractFrom(entries, 1, {}, <<>>, failAt)

\* ------------------------------------------------------------ test inputs
RECURSIVE Rep(_, _)
\* n copies of the character c.
Rep(c, n) == IF n <= 0 THEN <<>> ELSE <<c>> \o Rep(c, n - 1)

\* A two-digit field of the key.
TwoDigits(n) == <<DigitChar[(n \div 10) + 1], DigitChar[(n % 10) + 1]>>

\* An access key: cUF, yy, mm, 14 digits of CNPJ, the model, 22 more digits.
MakeKey(yy, mm, model) ==
    <<"3", "5">> \o TwoDigits(yy) \o TwoDigits(mm) \o Rep("0", 14) \o TwoDigits(model) \o Rep("0", 22)

DotXml == <<".", "x", "m", "l">>

\* ------------------------------------------------------------------ state
VARIABLES
    pc,          \* where main / process_root stands
    run,         \* the number of the invocation of the program
    today,       \* Local::now().date_naive() of this invocation
    dryRun,      \* args.dry_run
    poolThreads, \* the threads of rayon's global pool
    workers,     \* the --workers argument
    rootExists,  \* root.exists()
    rootFiles,   \* the files under root: directory, name and content
    tree,        \* what WalkDir yields under root, in its order
    idx,         \* the walk's position in tree (0: process_root not entered)
    dirs,        \* the destination tree: DestDirs -> PathKinds
    destFiles,   \* the regular files inside the destination directories
    tempdirs,    \* the temporary extraction directories that exist
    copy_tasks,  \* the Vec<(PathBuf, PathBuf)> behind the mutex
    taskState,   \* the progress of each task in the copy phase
    reported,    \* the count printed by the last line of process_root (-1: none)
    written,     \* history: the writes of this invocation, as (task, destination path)
    destAtStart, \* history: destFiles when this invocation started
    prev,        \* history: how the previous invocation went
    probe        \* a single call of one function, for the function-level specifications

vars == <<pc, run, today, dryRun, poolThreads, workers, rootExists, rootFiles, tree, idx, dirs, destFiles,
          tempdirs, copy_tasks, taskState, reported, written, destAtStart, prev, probe>>

pipeVars == <<pc, run, today, dryRun, poolThreads, workers, rootExists, rootFiles, tree, idx, dirs, destFiles,
              tempdirs, copy_tasks, taskState, reported, written, destAtStart, prev>>

\* ------------------------------------------------------- process_root, core
\* A queued copy task: the source path and the destination directory.
Task(src, dest_dir) == [src |-> src, dest_dir |-> dest_dir]

\* Lines 276-284 (and 259-267 for an extracted member): find the key in the
\* file name, classify it, and push one task when both succeed.
classify_and_queue(tasks, d, src, fname, day, mkdirOk) ==
    LET chave == find_chave_in_name(fname)
    IN  IF ~chave.some THEN [tasks |-> tasks, dirs |-> d, dest |-> None]
        ELSE LET r == determine_destination_for_xml(d, chave.val, day, mkdirOk)
             IN  IF r.dest.some
                 THEN [tasks |-> Append(tasks, Task(src, r.dest.val)), dirs |-> r.dirs, dest |-> r.dest]
                 ELSE [tasks |-> tasks, dirs |-> r.dirs, dest |-> None]

AllDirs == [p \in DestDirs |-> "dir"]

NoDirs == [p \in DestDirs |-> "none"]

\* #[arg(short, long, default_value_t = 4)] workers: usize
DefaultWorkers == 4

\* The pipeline at rest, for the specifications of a single function.
PipeIdle ==
    /\ pc = "idle" /\ run = 0 /\ today = Date(2024, 6, 15) /\ dryRun = FALSE
    /\ poolThreads = 1 /\ workers = DefaultWorkers
    /\ rootExists = TRUE /\ rootFiles = {} /\ tree = <<>> /\ idx = 0
    /\ dirs = AllDirs /\ destFiles = {} /\ tempdirs = {} /\ copy_tasks = <<>>
    /\ taskState = <<>> /\ reported = -1 /\ written = {} /\ destAtStart = {}
    /\ prev = [outcome |-> "none"]

\* ----------------------------------------- specification: find_chave_in_name
\* The character of a generated name at position pos: digits differ from
\* their neighbours, so that two windows of a run are told apart.
PosDigit(pos) == DigitChar[(pos % 10) + 1]

DigitRun(from, n, uni) ==
    [k \in 1..n |-> IF k = uni THEN ArabicDigit ELSE PosDigit(from + k)]

RunLens == {0} \cup ((KeyLen - RunSlack)..(KeyLen + RunSlack))

\* prefix, a digit run, a separator, a second digit run, the suffix.
KeyName(prefix, n1, uni, n2) ==
    prefix \o DigitRun(Len(prefix), n1, uni) \o <<"_">>
           \o DigitRun(Len(prefix) + n1 + 1, n2, 0) \o DotXml

KeyNames ==
    {KeyName(prefix, n1, uni, n2) :
        prefix \in {<<>>, <<"n", "_">>}, n1 \in RunLens, uni \in {0, 2}, n2 \in RunLens}

InitKey ==
    /\ PipeIdle
    /\ probe \in {[fn |-> "find", name |-> n, done |-> FALSE, out |-> None] : n \in KeyNames}

FindKey ==
    /\ probe.fn = "find" /\ ~probe.done
    /\ probe' = [probe EXCEPT !.done = TRUE, !.out = find_chave_in_name(probe.name)]
    /\ UNCHANGED pipeVars

NextKey == FindKey

SpecKey == InitKey /\ [][NextKey]_vars

\* The maximal digit runs of a name: where each starts and how long it is.
RunStarts(name) ==
    {s \in 1..Len(name) : IsDigit(name[s]) /\ (s = 1 \/ ~IsDigit(name[s - 1]))}

RunLenAt(name, s) ==
    CHOOSE l \in 1..(Len(name) - s + 1) :
        /\ \A k \in s..(s + l - 1) : IsDigit(name[k])
        /\ (s + l > Len(name) \/ ~IsDigit(name[s + l]))

Leftmost(S) == CHOOSE s \in S : \A t \in S : s <= t

FindDone == probe.fn = "find" /\ probe.done

\* C3 (as stated): find_chave_in_name returns a key only when some maximal
\* digit run has length exactly 44, and then the leftmost such run; when no
\* maximal run has exactly 44 digits (runs of 45 or more included) it returns
\* nothing.
C3_ExactRunOnly ==
    FindDone =>
        LET exact == {s \in RunStarts(probe.name) : RunLenAt(probe.name, s) = KeyLen}
        IN  IF exact = {} THEN probe.out = None
            ELSE probe.out = Some(SubSeq(probe.name, Leftmost(exact), Leftmost(exact) + KeyLen - 1))

\* C3 (amended): find_chave_in_name returns a key exactly when some maximal
\* digit run has at least 44 digits, and then the first 44 digits of the
\* leftmost such run; when every maximal run is shorter than 44 it returns
\* nothing.
C3_FirstWindowOfLongRun ==
    FindDone =>
        LET long == {s \in RunStarts(probe.name) : RunLenAt(probe.name, s) >= KeyLen}
        IN  IF long = {} THEN probe.out = None
            ELSE probe.out = Some(SubSeq(probe.name, Leftmost(long), Leftmost(long) + KeyLen - 1))

\* C3 witness: a name whose leftmost long run has more than 44 digits, followed
\* by a run of exactly 44, has been searched and a key was returned.
C3_Witness ==
    /\ FindDone /\ probe.out.some
    /\ \E s \in RunStarts(probe.name), t \in RunStarts(probe.name) :
        /\ s < t
        /\ RunLenAt(probe.name, s) > KeyLen
        /\ RunLenAt(probe.name, t) = KeyLen

\* -------------------------- specification: determine_destination_for_xml
YearSpan == 1

MaxMonthField == 13

KeyYears == 23..(23 + YearSpan)

ModelCodes == {55, 57, 58, 65, 0, 11}

Todays == {Date(y, m, d) : y \in 2024..(2024 + YearSpan), m \in 1..12, d \in {1, 15}}

\* The example keys of the documentation.
ScenarioAKey == <<"5", "5", "2", "3", "1", "0">> \o Rep("0", 36) \o <<"5", "5">>

ScenarioAName == ScenarioAKey \o DotXml

ScenarioBName == <<"n", "o", "t", "a", "_">> \o Rep("1", 42) \o <<"5", "7">> \o DotXml

\* A name whose 44 digits are not all ASCII.
ArabicName == <<"n", "_">> \o DigitRun(2, KeyLen, 2) \o DotXml

\* A path under root: its directory and its file name.
PlainSrc(dir, name) == [tmp |-> FALSE, dir |-> dir, td |-> <<0, 0>>, name |-> name]

\* The name under test with the fields it was built from (-1: not built from fields).
ClassifyInputs ==
    {[name |-> MakeKey(yy, mm, model) \o DotXml, yy |-> yy, mm |-> mm, model |-> model] :
        yy \in KeyYears, mm \in 0..MaxMonthField, model \in ModelCodes}
    \cup {[name |-> n, yy |-> -1, mm |-> -1, model |-> -1] :
            n \in {ScenarioAName, ScenarioBName, ArabicName}}

DirStates == {[dirs |-> AllDirs, mkdirOk |-> TRUE], [dirs |-> NoDirs, mkdirOk |-> TRUE],
              [dirs |-> NoDirs, mkdirOk |-> FALSE]}

InitClassify ==
    /\ PipeIdle
    /\ probe \in {[fn |-> "classify", name |-> i.name, yy |-> i.yy, mm |-> i.mm, model |-> i.model,
                   today |-> t, dirs |-> ds.dirs, mkdirOk |-> ds.mkdirOk,
                   done |-> FALSE, out |-> None, tasks |-> <<>>, dirsOut |-> ds.dirs] :
                  i \in ClassifyInputs, t \in Todays, ds \in DirStates}

Classify ==
    /\ probe.fn = "classify" /\ ~probe.done
    /\ LET r == classify_and_queue(<<>>, probe.dirs, PlainSrc("a", probe.name), probe.name,
                                   probe.today, probe.mkdirOk)
       IN  probe' = [probe EXCEPT !.done = TRUE, !.out = r.dest, !.tasks = r.tasks,
                                  !.dirsOut = r.dirs]
    /\ UNCHANGED pipeVars

NextClassify == Classify

SpecClassify == InitClassify /\ [][NextClassify]_vars

ClassifyDone == probe.fn = "classify" /\ probe.done

\* The months counted from year 0, for the comparison of two first-of-month dates.
IssueMonths == (2000 + probe.yy) * 12 + (probe.mm - 1)

ReferenceMonths == probe.today.year * 12 + (probe.today.month - 1) - 6

TypeOf(model) ==
    CASE model = 55 -> "NFe" [] model = 57 -> "CTe" [] model = 58 -> "MDFe" [] model = 65 -> "NFCe"
      [] OTHER -> ""

\* The destination directory is missing and the file system refuses to create it.
DirRefused(dest) == ~exists(probe.dirs, dest) /\ ~probe.mkdirOk

\* C4: a key with model 55 or 57 and a month in 01..12 goes, for every today,
\* to NFe/<bucket> or CTe/<bucket>, never to the type root; the bucket is
\* "Mais de 6 meses" exactly when the first day of the issue month is strictly
\* before the first day of the month six calendar months before today, and
\* "Menos de 6 meses" otherwise (the issue month equal to the reference month
\* included). The classification is withheld only when the bucket directory
\* is missing and cannot be created (step 5 of the classifier).
C4_BucketedByIssueMonth ==
    (ClassifyDone /\ probe.model \in {55, 57} /\ probe.mm \in 1..12) =>
        LET bucket == IF IssueMonths < ReferenceMonths THEN Mais ELSE Menos
            dest == <<TypeOf(probe.model), bucket>>
        IN  IF DirRefused(dest) THEN probe.out = None
            ELSE /\ probe.out = Some(dest)
                 /\ probe.tasks = <<Task(PlainSrc("a", probe.name), dest)>>

\* C4 witness: an NFe key whose issue month is the reference month, with today
\* in January..June (the year rolls over), has been classified as within six
\* months.
C4_Witness ==
    /\ ClassifyDone /\ probe.model = 55 /\ probe.mm \in 1..12
    /\ probe.today.month <= 6
    /\ IssueMonths = ReferenceMonths
    /\ probe.out = Some(<<"NFe", Menos>>)

\* C5 (as stated): the key 5523100...0055 is read as model 55 and, with today
\* 2024-06-15, goes to NFe/"Mais de 6 meses"; the member nota_1...157.xml is
\* read as model 57, goes to a CTe bucket and one copy task is queued.
C5_ExamplesAsStated ==
    /\ (ClassifyDone /\ probe.name = ScenarioAName /\ probe.today = Date(2024, 6, 15)
            /\ ~DirRefused(<<"NFe", Mais>>))
        => probe.out = Some(<<"NFe", Mais>>)
    /\ (ClassifyDone /\ probe.name = ScenarioBName /\ ~DirRefused(<<"CTe", Mais>>))
        => (probe.out.some /\ probe.out.val[1] = "CTe" /\ Len(probe.tasks) = 1)

\* C5 (amended): the model is read at key[20:22], which is "00" in the key
\* 5523100...0055 and "11" in the key of nota_1...157.xml; both are unknown
\* models, so for every today nothing is returned, no directory is created and
\* no copy task is queued for either of them.
C5_ExamplesUnknownModel ==
    (ClassifyDone /\ probe.name \in {ScenarioAName, ScenarioBName}) =>
        /\ probe.out = None
        /\ probe.tasks = <<>>
        /\ probe.dirsOut = probe.dirs

\* C5 witness: the first example key has been classified with today 2024-06-15.
C5_Witness ==
    /\ ClassifyDone /\ probe.name = ScenarioAName /\ probe.today = Date(2024, 6, 15)
    /\ probe.dirs = AllDirs

\* C6 (as stated): a key whose month field is outside 01..12 is rejected
\* whichever of the models 55, 57, 58, 65 it carries: nothing is returned and
\* no copy task is queued.
C6_BadMonthAlwaysRejected ==
    (ClassifyDone /\ probe.model \in {55, 57, 58, 65} /\ probe.mm >= 0 /\ probe.mm \notin 1..12) =>
        (probe.out = None /\ probe.tasks = <<>>)

\* C6 (amended): a key whose month field is outside 01..12 is rejected when
\* its model is 55 or 57: nothing is returned, no directory is created and no
\* copy task is queued. For the models 58 and 65 the month field is not read:
\* the key goes to the type root MDFe or NFCe and one copy task is queued
\* (unless that directory is missing and cannot be created).
C6_BadMonthRejectedForBucketed ==
    (ClassifyDone /\ probe.mm >= 0 /\ probe.mm \notin 1..12) =>
        /\ probe.model \in {55, 57} =>
            (probe.out = None /\ probe.tasks = <<>> /\ probe.dirsOut = probe.dirs)
        /\ probe.model \in {58, 65} =>
            IF DirRefused(<<TypeOf(probe.model)>>) THEN probe.out = None /\ probe.tasks = <<>>
            ELSE /\ probe.out = Some(<<TypeOf(probe.model)>>)
                 /\ Len(probe.tasks) = 1

\* C6 witness: a CTe key with month 13 has been rejected although its bucket
\* directories exist.
C6_Witness ==
    /\ ClassifyDone /\ probe.model = 57 /\ probe.mm = 13
    /\ probe.dirs = AllDirs /\ probe.out = None

\* C14: a key with model 58 or 65 goes, for every today and whatever its year
\* and month fields, to the type root MDFe or NFCe, with no bucket segment,
\* and one copy task is queued for it (the classification is withheld only
\* when that directory is missing and cannot be created); a key whose model
\* is none of 55, 57, 58, 65 gets no destination, creates no directory and
\* queues no copy task.
C14_TypeRootOrUnknown ==
    /\ (ClassifyDone /\ probe.model \in {58, 65}) =>
            LET dest == <<TypeOf(probe.model)>>
            IN  IF DirRefused(dest) THEN probe.out = None /\ probe.tasks = <<>>
                ELSE /\ probe.out = Some(dest)
                     /\ probe.tasks = <<Task(PlainSrc("a", probe.name), dest)>>
    /\ (ClassifyDone /\ probe.model >= 0 /\ probe.model \notin {55, 57, 58, 65}) =>
            /\ probe.out = None
            /\ probe.tasks = <<>>
            /\ probe.dirsOut = probe.dirs

\* C14 witness: an NFCe key issued in 2023-01 has been classified in 2025 to
\* the type root, created on demand.
C14_Witness ==
    /\ ClassifyDone /\ probe.model = 65 /\ probe.yy = 23 /\ probe.mm = 1
    /\ probe.today.year = 2025
    /\ probe.dirs = NoDirs /\ probe.dirsOut[<<"NFCe">>] = "dir"
    /\ probe.out = Some(<<"NFCe">>)

\* ------------------------------------------- specification: safe_extract_zip
MaxNameLen == 4

MaxEntries == 2

NameChars == {"a", ".", "/"}

RECURSIVE NamesOfLen(_)
NamesOfLen(n) ==
    IF n = 0 THEN {<<>>}
    ELSE {Append(w, c) : w \in NamesOfLen(n - 1), c \in NameChars}

EntryNames == UNION {NamesOfLen(n) : n \in 1..MaxNameLen}

\* The entries around the entry under test: a file, a directory, a traversal.
Followers == {<<"a">>, <<"a", "/">>, <<".", ".", "/", "a">>}

\* Archives of n entries: one entry of EntryNames at position p, a follower elsewhere.
Archives ==
    {[k \in 1..n |-> IF k = p THEN e ELSE f] :
        n \in 1..MaxEntries, p \in 1..MaxEntries, e \in EntryNames, f \in Followers}

InitZip ==
    /\ PipeIdle
    /\ probe \in {[fn |-> "extract", entries |-> a, openOk |-> o, failAt |-> x, done |-> FALSE,
                   out |-> [ok |-> FALSE, extracted |-> <<>>, created |-> {}]] :
                  a \in Archives, o \in BOOLEAN, x \in 0..MaxEntries}

Extract ==
    /\ probe.fn = "extract" /\ ~probe.done
    /\ probe' = [probe EXCEPT !.done = TRUE,
                              !.out = safe_extract_zip(probe.entries, probe.openOk, probe.failAt)]
    /\ UNCHANGED pipeVars

NextZip == Extract

SpecZip == InitZip /\ [][NextZip]_vars

ExtractDone == probe.fn = "extract" /\ probe.done

\* The stored name has a parent-directory segment.
HasParentSegment(name) == \E k \in 1..Len(Split(name)) : Split(name)[k] = DotDot

\* C7: everything safe_extract_zip creates lies inside the extraction
\* directory; an entry whose name has a ".." segment or is absolute is not
\* materialized and is not in the returned list; and the entries after it are
\* still extracted: when the call succeeds, every file entry that is neither
\* is in the returned list and on disk.
C7_ExtractionStaysInside ==
    ExtractDone =>
        /\ \A o \in probe.out.created : ~o.abs /\ o.up = 0
        /\ \A k \in 1..Len(probe.out.extracted) :
            /\ ~HasParentSegment(probe.out.extracted[k])
            /\ probe.out.extracted[k][1] # "/"
        /\ probe.out.ok =>
            \A k \in 1..Len(probe.entries) :
                LET name == probe.entries[k]
                IN  (~ContainsDotDot(name) /\ name[1] # "/" /\ name[Len(name)] # "/")
                        => /\ \E j \in 1..Len(probe.out.extracted) : probe.out.extracted[j] = name
                           /\ \E o \in probe.out.created : o.kind = "file" /\ o.segs = Join(name).segs

\* C7 witness: an archive whose first entry is a traversal and whose second
\* entry is a plain file has been extracted with success, and the file is the
\* only member returned.
C7_Witness ==
    /\ ExtractDone /\ probe.out.ok
    /\ Len(probe.entries) = 2
    /\ probe.entries[1] = <<".", ".", "/", "a">>
    /\ probe.entries[2] = <<"a">>
    /\ probe.out.extracted = << <<"a">> >>

\* ------------------------------------------------------ the pipeline: inputs
MaxFiles == 2

MaxRuns == 2

MaxThreads == 2

KNFe == MakeKey(23, 12, 55)

KCTe == MakeKey(24, 1, 57)

ZipName == <<"d", ".", "Z", "i", "p">>

File(dir, name, readable) ==
    [dir |-> dir, name |-> name, kind |-> "file", readable |-> readable,
     entries |-> <<>>, validZip |-> FALSE]

\* What can lie under root: two readable XML files of the same name in two
\* directories, an unreadable third, an archive holding a traversal entry and
\* an XML member, an MDFe key with month 13, a directory.
Catalog ==
    << File("a", KNFe \o DotXml, TRUE),
       File("b", KNFe \o DotXml, TRUE),
       [File("a", ZipName, TRUE) EXCEPT
            !.entries = << <<".", ".", "/", "e">>, <<"n", "_">> \o KCTe \o DotXml >>,
            !.validZip = TRUE],
       File("c", KNFe \o DotXml, FALSE),
       File("a", MakeKey(23, 13, 58) \o <<".", "X", "M", "L">>, TRUE),
       [File("a", <<"s", ".", "x", "m", "l">>, TRUE) EXCEPT !.kind = "dir"] >>

RECURSIVE TreesOfLen(_)
TreesOfLen(n) ==
    IF n = 0 THEN {<<>>}
    ELSE {Append(w, c) : w \in TreesOfLen(n - 1), c \in 1..Len(Catalog)}

\* What WalkDir yields: up to MaxFiles entries of the catalog, listed in the
\* catalog's order (the copy phase takes the tasks in any order).
Trees ==
    {w \in UNION {TreesOfLen(n) : n \in 0..MaxFiles} :
        \A i \in 1..Len(w), j \in 1..Len(w) : i < j => w[i] < w[j]}

\* The regular files a walk of root meets, each with its own content.
RootFilesOf(w) ==
    {[dir |-> Catalog[w[i]].dir, name |-> Catalog[w[i]].name,
      content |-> PlainSrc(Catalog[w[i]].dir, Catalog[w[i]].name)] :
        i \in {k \in 1..Len(w) : Catalog[w[k]].kind = "file"}}

PipeTodays == {Date(2024, 6, 15), Date(2024, 7, 1)}

\* A regular file named MDFe stands where the directory should be.
MDFeIsFile == [NoDirs EXCEPT ![<<"MDFe">>] = "file"]

OldFile == [dir |-> <<"NFe", Menos>>, name |-> KNFe \o DotXml, content |-> PlainSrc("old", KNFe \o DotXml)]

\* The create_dir_all call of ensure_directories that fails (0: none).
EnsureFailures == {0, 5}

\* ---------------------------------------------------- the pipeline: actions
RECURSIVE EnsureFrom(_, _, _)
\* The loop of lines 81-89 from structure[i] on.
EnsureFrom(d, i, failAt) ==
    IF i > Len(structure) THEN [ok |-> TRUE, dirs |-> d]
    ELSE IF exists(d, structure[i]) THEN EnsureFrom(d, i + 1, failAt)
    ELSE LET r == create_dir_all(d, structure[i], i # failAt)
         IN  IF r.ok THEN EnsureFrom(r.dirs, i + 1, failAt) ELSE [ok |-> FALSE, dirs |-> d]

ensure_directories(d, failAt) == EnsureFrom(d, 1, failAt)

Init ==
    /\ pc = "main" /\ run = 1 /\ today = Date(2024, 6, 15)
    /\ \/ /\ rootExists = TRUE
          /\ dryRun \in BOOLEAN
          /\ poolThreads \in 1..MaxThreads
          /\ workers \in {1, DefaultWorkers}
          /\ tree \in Trees
          /\ \/ dirs \in {NoDirs, MDFeIsFile} /\ destFiles = {}
             \/ dirs = AllDirs /\ destFiles \in {{}, {OldFile}}
       \/ /\ rootExists = FALSE
          /\ dryRun = FALSE /\ poolThreads = 1 /\ workers = DefaultWorkers /\ tree = <<>>
          /\ dirs = NoDirs /\ destFiles = {}
    /\ rootFiles = RootFilesOf(tree)
    /\ idx = 0
    /\ tempdirs = {} /\ copy_tasks = <<>> /\ taskState = <<>>
    /\ reported = -1 /\ written = {} /\ destAtStart = destFiles
    /\ prev = [outcome |-> "none"]
    /\ probe = [fn |-> "none"]

\* main (lines 304-322) up to the first statements of process_root (240-244).
Main ==
    /\ pc = "main"
    /\ \E t \in PipeTodays : ~DateLT(t, today) /\ today' = t
    /\ destAtStart' = destFiles /\ written' = {}
    /\ IF ~rootExists
       THEN /\ pc' = "exit1"
            /\ UNCHANGED <<dirs, idx>>
       ELSE \E failAt \in EnsureFailures :
                LET r == ensure_directories(dirs, failAt)
                IN  /\ dirs' = r.dirs
                    /\ IF r.ok THEN pc' = "walk" /\ idx' = 1
                       ELSE pc' = "error" /\ idx' = idx
    /\ copy_tasks' = <<>> /\ taskState' = <<>>
    /\ UNCHANGED <<run, dryRun, poolThreads, workers, rootExists, rootFiles, tree, destFiles, tempdirs,
                   reported, prev, probe>>

Entry == Catalog[tree[idx]]

Walking == pc = "walk" /\ idx <= Len(tree)

\* Lines 249-251, 275, 285: a directory, or a file that is neither .zip nor .xml.
WalkSkip ==
    /\ Walking
    /\ Entry.kind # "file" \/ (~IsZip(Entry.name) /\ ~IsXml(Entry.name))
    /\ idx' = idx + 1
    /\ UNCHANGED <<pc, run, today, dryRun, poolThreads, workers, rootExists, rootFiles, tree, dirs, destFiles,
                   tempdirs, copy_tasks, taskState, reported, written, destAtStart, prev, probe>>

\* Lines 275-285: an .xml file.
WalkXml ==
    /\ Walking
    /\ Entry.kind = "file" /\ ~IsZip(Entry.name) /\ IsXml(Entry.name)
    /\ \E mkdirOk \in BOOLEAN :
        LET r == classify_and_queue(copy_tasks, dirs, PlainSrc(Entry.dir, Entry.name),
                                    Entry.name, today, mkdirOk)
        IN  copy_tasks' = r.tasks /\ dirs' = r.dirs
    /\ idx' = idx + 1
    /\ UNCHANGED <<pc, run, today, dryRun, poolThreads, workers, rootExists, rootFiles, tree, destFiles,
                   tempdirs, taskState, reported, written, destAtStart, prev, probe>>

\* A path inside the temporary directory td.
TmpSrc(td, name) == [tmp |-> TRUE, dir |-> "tmp", td |-> td, name |-> name]

RECURSIVE QueueExtracted(_, _, _, _, _, _)
\* The loop of lines 258-268 over the extracted paths, from the k-th on.
QueueExtracted(tasks, d, td, extracted, k, mkdirOk) ==
    IF k > Len(extracted) THEN [tasks |-> tasks, dirs |-> d]
    ELSE IF ~IsXml(extracted[k]) THEN QueueExtracted(tasks, d, td, extracted, k + 1, mkdirOk)
    ELSE LET r == classify_and_queue(tasks, d, TmpSrc(td, extracted[k]),
                                     file_name(extracted[k]), today, mkdirOk)
         IN  QueueExtracted(r.tasks, r.dirs, td, extracted, k + 1, mkdirOk)

\* Lines 251-273: a .zip file: the temporary directory, the extraction, the
\* tasks of the extracted members. A failure of tempdir() leaves process_root
\* by the ? operator.
WalkZip ==
    /\ Walking
    /\ Entry.kind = "file" /\ IsZip(Entry.name)
    /\ \E tdOk \in BOOLEAN :
        IF ~tdOk
        THEN /\ pc' = "error"
             /\ UNCHANGED <<tempdirs, copy_tasks, dirs>>
        ELSE \E failAt \in 0..Len(Entry.entries), mkdirOk \in BOOLEAN :
                LET r == safe_extract_zip(Entry.entries, Entry.validZip, failAt)
                    q == QueueExtracted(copy_tasks, dirs, <<run, idx>>, r.extracted, 1, mkdirOk)
                IN  /\ tempdirs' = tempdirs \cup {[id |-> <<run, idx>>, files |-> r.created]}
                    /\ copy_tasks' = q.tasks /\ dirs' = q.dirs
                    /\ pc' = "zipdrop"
    /\ UNCHANGED <<run, today, dryRun, poolThreads, workers, rootExists, rootFiles, tree, idx, destFiles,
                   taskState, reported, written, destAtStart, prev, probe>>

\* A plausible slip: the TempDir is kept (into_path) so that it outlives the scope.
TempDirKept(tds, id) == tds

\* Line 274: td goes out of scope; TempDir::drop removes the directory.
TempDirDropped(tds, id) == {td \in tds : td.id # id}

ZipDrop ==
    /\ pc = "zipdrop"
    /\ tempdirs' = TempDirDropped(tempdirs, <<run, idx>>)
    /\ idx' = idx + 1
    /\ pc' = "walk"
    /\ UNCHANGED <<run, today, dryRun, poolThreads, workers, rootExists, rootFiles, tree, dirs, destFiles,
                   copy_tasks, taskState, reported, written, destAtStart, prev, probe>>

\* A plausible slip: the loop is left one entry early.
walk_over_before_last(i, entries) == i >= Len(entries)

\* Lines 247-287: the for loop over WalkDir has taken its last entry.
walk_over(i, entries) == i > Len(entries)

\* Lines 289-291: the walk is over; the tasks are handed to the copy phase.
WalkEnd ==
    /\ pc = "walk" /\ walk_over(idx, tree)
    /\ pc' = "copy"
    /\ taskState' = [t \in 1..Len(copy_tasks) |-> "queued"]
    /\ UNCHANGED <<run, today, dryRun, poolThreads, workers, rootExists, rootFiles, tree, idx, dirs, destFiles,
                   tempdirs, copy_tasks, reported, written, destAtStart, prev, probe>>

\* ------------------------------------------------- the pipeline: copy phase
DestPath(dest_dir, fname) == [dir |-> dest_dir, name |-> fname]

FileAt(files, path) == {f \in files : f.dir = path.dir /\ f.name = path.name}

\* A plausible slip: the candidate is returned whether it exists or not.
unique_dest_overwrite(files, dest_dir, fname) == Some(DestPath(dest_dir, fname))

\* unique_dest(dest_dir, file_name): the candidate when nothing exists there.
unique_dest(files, dest_dir, fname) ==
    IF FileAt(files, DestPath(dest_dir, fname)) = {} THEN Some(DestPath(dest_dir, fname))
    ELSE None

\* src.file_name().and_then(|s| s.to_str()).unwrap_or("file.xml")
TaskFileName(src) ==
    IF file_name(src.name) = <<>> THEN <<"f", "i", "l", "e">> \o DotXml ELSE file_name(src.name)

\* The source path resolves to a file: under root, or in a temporary
\* directory, where a path exists while the directory does.
SrcExists(tds, root, src) ==
    IF src.tmp
    THEN \E td \in tds : td.id = src.td /\ Obj(Join(src.name), "file") \in td.files
    ELSE \E f \in root : f.dir = src.dir /\ f.name = src.name

\* The file can be opened for reading.
Readable(src) ==
    src.tmp \/ \A c \in 1..Len(Catalog) :
                  (Catalog[c].dir = src.dir /\ Catalog[c].name = src.name) => Catalog[c].readable

\* A plausible slip: the file is moved (fs::rename) instead of copied.
fs_rename(files, d, tds, root, src, dest) ==
    IF ~SrcExists(tds, root, src) \/ ~Readable(src) \/ d[dest.dir] # "dir"
    THEN [ok |-> FALSE, files |-> files, root |-> root]
    ELSE [ok |-> TRUE,
          files |-> (files \ FileAt(files, dest))
                        \cup {[dir |-> dest.dir, name |-> dest.name, content |-> src]},
          root |-> {f \in root : src.tmp \/ f.dir # src.dir \/ f.name # src.name}]

\* fs::copy(src, dest): opens the source, then creates or truncates the
\* destination and writes it; the source is left as it is.
fs_copy(files, d, tds, root, src, dest) ==
    IF ~SrcExists(tds, root, src) \/ ~Readable(src) \/ d[dest.dir] # "dir"
    THEN [ok |-> FALSE, files |-> files, root |-> root]
    ELSE [ok |-> TRUE,
          files |-> (files \ FileAt(files, dest))
                        \cup {[dir |-> dest.dir, name |-> dest.name, content |-> src]},
          root |-> root]

Final == {"copied", "dropped", "failed", "simulated"}

InFlight == {t \in 1..Len(taskState) : taskState[t] = "checked"}

\* A plausible slip: the dry-run flag is not looked at before the copy.
before_copy_dry_ignored(dest, dry_run) ==
    IF ~dest.some THEN "dropped" ELSE "checked"

\* Lines 222-232: where copy_file_to_dest stands before fs::copy: it has
\* returned None (no free name), returned Some(Ok(dest)) of the dry run, or
\* goes on to the copy.
before_copy(dest, dry_run) ==
    IF ~dest.some THEN "dropped" ELSE IF dry_run THEN "simulated" ELSE "checked"

\* The threads par_iter runs on: process_root takes the workers argument as
\* `_: usize` and builds no pool, so they are those of rayon's global pool.
ThreadsOf(global_pool, workers_arg) == global_pool

\* Lines 221-232 for task t, on a free thread of the pool: the existence test
\* of unique_dest, and the return of the dry run.
CopyCheck(t) ==
    /\ pc = "copy" /\ taskState[t] = "queued"
    /\ Cardinality(InFlight) < ThreadsOf(poolThreads, workers)
    /\ LET dest == unique_dest(destFiles, copy_tasks[t].dest_dir, TaskFileName(copy_tasks[t].src))
       IN  taskState' = [taskState EXCEPT ![t] = before_copy(dest, dryRun)]
    /\ UNCHANGED <<pc, run, today, dryRun, poolThreads, workers, rootExists, rootFiles, tree, idx, dirs, destFiles,
                   tempdirs, copy_tasks, reported, written, destAtStart, prev, probe>>

\* Line 233 for task t: fs::copy to the candidate found by CopyCheck.
CopyWrite(t) ==
    /\ pc = "copy" /\ taskState[t] = "checked"
    /\ LET dest == DestPath(copy_tasks[t].dest_dir, TaskFileName(copy_tasks[t].src))
           r == fs_copy(destFiles, dirs, tempdirs, rootFiles, copy_tasks[t].src, dest)
       IN  /\ destFiles' = r.files
           /\ rootFiles' = r.root
           /\ taskState' = [taskState EXCEPT ![t] = IF r.ok THEN "copied" ELSE "failed"]
           /\ written' = IF r.ok THEN written \cup {[task |-> t, path |-> dest]} ELSE written
    /\ UNCHANGED <<pc, run, today, dryRun, poolThreads, workers, rootExists, tree, idx, dirs,
                   tempdirs, copy_tasks, reported, destAtStart, prev, probe>>

\* A plausible slip: the loop is left at the first copy that fails
\* (try_for_each), the tasks not yet taken being abandoned.
try_for_each_returns(states) ==
    \/ \A t \in 1..Len(states) : states[t] \in Final
    \/ /\ \E t \in 1..Len(states) : states[t] = "failed"
       /\ \A t \in 1..Len(states) : states[t] # "checked"

\* Lines 294-298: for_each returns when the closure has run on every task; an
\* Err of copy_file_to_dest is printed and nothing else.
for_each_returns(states) == \A t \in 1..Len(states) : states[t] \in Final

\* Lines 298-301: for_each has joined every task; the count is printed.
Finish ==
    /\ pc = "copy"
    /\ for_each_returns(taskState)
    /\ pc' = "done"
    /\ reported' = Len(copy_tasks)
    /\ UNCHANGED <<run, today, dryRun, poolThreads, workers, rootExists, rootFiles, tree, idx, dirs, destFiles,
                   tempdirs, copy_tasks, taskState, written, destAtStart, prev, probe>>

Ended == pc \in {"done", "error", "exit1"}

\* The program is started again on the same root and destination.
NextRun ==
    /\ Ended /\ run < MaxRuns
    /\ run' = run + 1
    /\ pc' = "main"
    /\ prev' = [outcome |-> pc, today |-> today]
    /\ idx' = 0 /\ copy_tasks' = <<>> /\ taskState' = <<>> /\ reported' = -1
    /\ UNCHANGED <<today, dryRun, poolThreads, workers, rootExists, rootFiles, tree, dirs, destFiles,
                   tempdirs, written, destAtStart, probe>>

Next ==
    \/ Main
    \/ WalkSkip
    \/ WalkXml
    \/ WalkZip
    \/ ZipDrop
    \/ WalkEnd
    \/ \E t \in 1..Len(copy_tasks) : CopyCheck(t)
    \/ \E t \in 1..Len(copy_tasks) : CopyWrite(t)
    \/ Finish
    \/ NextRun

Spec == Init /\ [][Next]_vars

\* ------------------------------------------------- claims on the pipeline
Target(t) == DestPath(copy_tasks[t].dest_dir, TaskFileName(copy_tasks[t].src))

\* C1: in a non-dry run, of two queued tasks with the same source base name
\* and the same destination directory exactly one writes the destination file
\* and the other is dropped without writing: no destination file is written
\* by two tasks of one run, whatever the interleaving of the copy workers.
C1_DestinationWrittenOnce ==
    ~dryRun =>
        \A w1 \in written, w2 \in written : w1.path = w2.path => w1.task = w2.task

\* C2: an XML member of a zip archive is relocated like a plain XML file; in
\* particular the source path of every queued copy task still exists when the
\* copy phase executes that task.
C2_SourceExistsAtCopy ==
    \A t \in 1..Len(taskState) :
        (pc = "copy" /\ taskState[t] = "checked") => SrcExists(tempdirs, rootFiles, copy_tasks[t].src)

\* C8: once the root exists and the destination tree is provisioned, no
\* failure of a single unit of work ends the run: the walk visits every
\* entry, the copy phase runs and the run ends by reporting the task count.
C8_RunAlwaysCompletes ==
    (Ended /\ idx >= 1) =>
        /\ pc = "done"
        /\ idx > Len(tree)
        /\ reported = Len(copy_tasks)

\* The invocation follows a completed one, on the same day, and is past main.
SecondRun ==
    /\ run >= 2 /\ ~dryRun
    /\ prev.outcome = "done" /\ prev.today = today
    /\ pc \in {"walk", "zipdrop", "copy", "done"}

C10_TempDirScopedToArchive ==
    /\ pc # "zipdrop" => tempdirs = {}
    /\ pc = "zipdrop" => \A td \in tempdirs : td.id = <<run, idx>>

\* C10 witness: the copy phase is running on a task queued from an archive
\* member, and no temporary directory exists.
C10_Witness ==
    /\ pc = "copy" /\ tempdirs = {}
    /\ \E t \in 1..Len(copy_tasks) : copy_tasks[t].src.tmp

\* The entries of the walk that are plain .xml files and that the classifier
\* accepts.
PlainClassified ==
    {i \in 1..Len(tree) :
        LET e == Catalog[tree[i]]
        IN  /\ e.kind = "file" /\ ~IsZip(e.name) /\ IsXml(e.name)
            /\ classify_and_queue(<<>>, dirs, PlainSrc(e.dir, e.name), e.name, today, TRUE).dest.some}

\* The queued tasks whose source is a member extracted from an archive.
MemberTasks == {t \in 1..Len(copy_tasks) : copy_tasks[t].src.tmp}

CopiesMade == {t \in 1..Len(taskState) : taskState[t] \in {"copied", "simulated"}}

\* C13: the count reported at the end of a run is the number of tasks whose
\* copy was performed (or, in a dry run, reported as intended): dropped and
\* failed tasks are not counted.
C13_ReportedIsCopiesMade ==
    pc = "done" => reported = Cardinality(CopiesMade)

\* C15: a run is copy-only. Every file under root is, at every moment of
\* every run, dry or not, where it was with the content it had, and nothing
\* is added under root; every file the destination held when the run started
\* is still there with its content; what an extraction creates lies inside
\* its temporary directory.
C15_CopyOnly ==
    /\ rootFiles = RootFilesOf(tree)
    /\ destAtStart \subseteq destFiles
    /\ \A td \in tempdirs : \A o \in td.files : Inside(o)

\* C15 witness: a non-dry run has ended after copying a file from root into a
\* destination that already held a file.
C15_Witness ==
    /\ pc = "done" /\ ~dryRun
    /\ OldFile \in destAtStart
    /\ \E t \in 1..Len(taskState) : taskState[t] = "copied" /\ ~copy_tasks[t].src.tmp

\* C16: at every copy attempt of a run (a task stands before its fs::copy),
\* each of the eight paths of the destination tree is a directory under the
\* base path.
C16_TreeExistsAtCopy ==
    (pc = "copy" /\ InFlight # {}) => \A p \in DestDirs : dirs[p] = "dir"

\* The copy of task t meets an I/O error: its source is gone or cannot be
\* read, or its destination directory is not a directory.
CopyFails(t) ==
    \/ ~SrcExists(tempdirs, rootFiles, copy_tasks[t].src)
    \/ ~Readable(copy_tasks[t].src)
    \/ dirs[copy_tasks[t].dest_dir] # "dir"

\* The target name of task t was free when the run started and no other task
\* of the run has the same target.
TargetFree(t) ==
    /\ FileAt(destAtStart, Target(t)) = {}
    /\ \A u \in 1..Len(copy_tasks) : Target(u) = Target(t) => u = t

\* C17: in the copy phase every queued task is attempted, whatever the
\* outcome of the others: when the run ends each task has its own outcome, a
\* task has failed only on its own I/O error, a task was dropped only because
\* its target name is taken, and in a non-dry run every task whose copy meets
\* no I/O error and whose target name is free has been copied, however many
\* of the other tasks failed.
C17_EveryTaskAttempted ==
    pc = "done" =>
        \A t \in 1..Len(copy_tasks) :
            /\ taskState[t] \in Final
            /\ taskState[t] = "failed" => CopyFails(t)
            /\ taskState[t] = "dropped" => FileAt(destFiles, Target(t)) # {}
            /\ (~dryRun /\ ~CopyFails(t) /\ TargetFree(t)) =>
                    /\ taskState[t] = "copied"
                    /\ \E f \in FileAt(destFiles, Target(t)) : f.content = copy_tasks[t].src

\* C17 witness: a non-dry run has ended with one task failed and another,
\* whose target name was free, copied.
C17_Witness ==
    /\ pc = "done" /\ ~dryRun
    /\ \E t \in 1..Len(copy_tasks), u \in 1..Len(copy_tasks) :
        /\ taskState[t] = "failed"
        /\ taskState[u] = "copied" /\ TargetFree(u)

IsPrefix(a, b) == Len(a) <= Len(b) /\ SubSeq(b, 1, Len(a)) = a

\* Some task of the run has been taken by a copy worker.
CopyStarted == \E t \in 1..Len(taskState) : taskState[t] # "queued"

\* C18: the walk and the copy phase never overlap. When a copy task has
\* started, the walk has visited its last entry and no archive is still being
\* extracted or its members classified; the task list is only appended to
\* during the walk, and is not changed from the start of the copy phase to
\* the end of the run.
C18_PhasesDoNotOverlap ==
    /\ [](CopyStarted =>
            /\ pc \in {"copy", "done"}
            /\ idx > Len(tree)
            /\ tempdirs = {})
    /\ [][/\ pc \in {"walk", "zipdrop"} => IsPrefix(copy_tasks, copy_tasks')
          /\ pc = "copy" => copy_tasks' = copy_tasks]_vars

\* C18 witness: a copy worker has taken a task while another task, queued
\* from a later entry of the walk, waits.
C18_Witness ==
    /\ pc = "copy" /\ Len(copy_tasks) = 2 /\ Len(tree) = 2
    /\ taskState[1] = "queued" /\ taskState[2] = "checked"

\* C19: over the non-dry runs on one root and one destination, with a date
\* that does not go back, the copies of one NFe or CTe source file lie in at
\* most one bucket directory of its type.
C19_OneBucketPerSource ==
    ~dryRun =>
        \A f \in destFiles, g \in destFiles :
            (/\ f.content = g.content
             /\ Len(f.dir) = 2 /\ Len(g.dir) = 2
             /\ f.dir[1] = g.dir[1])
                => f.dir = g.dir

====
